---- MODULE Spec2Model ----
(***************************************************************************)
(* Model of quartz/components/scripts/graph.inline.ts: the graph builder   *)
(* (edge construction, neighbourhood traversal, result filtering), the     *)
(* four renderers, the visited store and the panel controller (nav         *)
(* listener, icon click, escape handler).                                  *)
(*                                                                         *)
(* A slug is the sequence of its "/"-separated segments: "a/index" is      *)
(* <<"a","index">>, "a/" is <<"a","">>, "/" is <<"","">>.                  *)
(***************************************************************************)
EXTENDS Integers, Sequences, FiniteSets, TLC

VARIABLES
  data,        \* the resolved value of fetchData: sequence of [key, links, tags]
  cfg,         \* dataset["cfg"] of each mount point
  mounts,      \* the mount points present in the document
  store,       \* localStorage["graph-visited"]
  fetched,     \* whether the fetchData promise has resolved
  pending,     \* render calls suspended at `await fetchData`, in order
  dom,         \* children of each mount point (the svgs appended)
  active,      \* #global-graph-outer carries the class "active"
  iconClick,   \* click listeners registered on #global-graph-icon
  escHandlers, \* number of escape handlers registered on #global-graph-outer
  nextId,      \* number of render calls made so far
  latest,      \* per mount point: the latest render call that cleared it
  lastEv,      \* the event handled last and what its handler did
  added,       \* identifiers passed to addToVisited so far
  store0,      \* the store before the first event
  page,        \* the slug of the page the window shows
  budget,      \* events still allowed in this run
  loop         \* the worklist loop of one builder run, taken step by step

vars == <<data, cfg, mounts, store, fetched, pending, dom, active, iconClick,
          escHandlers, nextId, latest, lastEv, added, store0, page, budget, loop>>

----------------------------------------------------------------------------
(* Bounds *)

MaxDepth == 2
MaxLinks == 2
MaxEvents == 3

----------------------------------------------------------------------------
(* Helpers *)

Range(s) == {s[i] : i \in 1..Len(s)}

\* JavaScript Set.add on an insertion-ordered set
SetAdd(s, x) == IF x \in Range(s) THEN s ELSE Append(s, x)

RECURSIVE SetFrom(_, _)
\* new Set(iterable) continued from the set acc
SetFrom(acc, s) == IF s = <<>> THEN acc ELSE SetFrom(SetAdd(acc, Head(s)), Tail(s))

Count(s, x) == Cardinality({i \in 1..Len(s) : s[i] = x})

----------------------------------------------------------------------------
(* Slugs *)

SENTINEL == <<"__SENTINEL">>
GRAPH == "graph-container"
GLOBAL == "global-graph-container"
Containers == {GRAPH, GLOBAL}

\* util/path simplifySlug: trim a trailing "index", strip a leading slash,
\* and name the empty result "/"
simplifySlug(fp) ==
  LET n == Len(fp)
      trimmed == IF fp[n] = "index" THEN [fp EXCEPT ![n] = ""] ELSE fp
      res == IF Len(trimmed) > 1 /\ trimmed[1] = "" THEN Tail(trimmed) ELSE trimmed
  IN  IF res = <<"">> THEN <<"", "">> ELSE res

tagSlug(tag) == simplifySlug(<<"tags", tag>>)

SimpleKeys(d) == {simplifySlug(d[i].key) : i \in 1..Len(d)}

----------------------------------------------------------------------------
(* Graph builder: edge construction (renderGraph lines 52-78) *)

validLinks(d) == SimpleKeys(d)

\* the page links of one entry that survive the validity filter
PageEdges(entry, valid) ==
  LET source == simplifySlug(entry.key)
      Keep(dest) == dest \in valid
      outgoing == SelectSeq(entry.links, Keep)
  IN  [i \in 1..Len(outgoing) |-> [source |-> source, target |-> outgoing[i]]]

\* the tag slugs of one entry, after removeTags
localTags(entry, removeTags) ==
  LET Keep(tag) == tag \notin Range(removeTags)
      kept == SelectSeq(entry.tags, Keep)
  IN  [i \in 1..Len(kept) |-> tagSlug(kept[i])]

\* a buggy variant: with showTags the page links are left out
AddEntryTagsOnly(acc, entry, valid, showTags, removeTags) ==
  IF showTags
  THEN LET lt == localTags(entry, removeTags)
           source == simplifySlug(entry.key)
       IN  [links |-> acc.links \o [i \in 1..Len(lt) |-> [source |-> source, target |-> lt[i]]],
            tags |-> acc.tags \o lt]
  ELSE [acc EXCEPT !.links = acc.links \o PageEdges(entry, valid)]

\* a buggy variant: the validity filter is missing
AddEntryNoFilter(acc, entry, valid, showTags, removeTags) ==
  LET source == simplifySlug(entry.key)
  IN  [acc EXCEPT !.links = acc.links \o
         [i \in 1..Len(entry.links) |-> [source |-> source, target |-> entry.links[i]]]]

\* one iteration of the loop over Object.entries(data)
AddEntry(acc, entry, valid, showTags, removeTags) ==
  LET source == simplifySlug(entry.key)
      withLinks == acc.links \o PageEdges(entry, valid)
  IN  IF showTags
      THEN LET lt == localTags(entry, removeTags)
               Fresh(tag) == tag \notin Range(acc.tags)
           IN  [links |-> withLinks \o
                          [i \in 1..Len(lt) |-> [source |-> source, target |-> lt[i]]],
                tags |-> acc.tags \o SelectSeq(lt, Fresh)]
      ELSE [links |-> withLinks, tags |-> acc.tags]

RECURSIVE BuildFrom(_, _, _, _, _)
BuildFrom(d, i, acc, showTags, removeTags) ==
  IF i > Len(d) THEN acc
  ELSE BuildFrom(d, i + 1, AddEntry(acc, d[i], validLinks(d), showTags, removeTags),
                 showTags, removeTags)

\* the full edge list `links` and the tag nodes `tags`
BuildLinks(d, showTags, removeTags) ==
  BuildFrom(d, 1, [links |-> <<>>, tags |-> <<>>], showTags, removeTags)

----------------------------------------------------------------------------
(* Graph builder: neighbourhood (renderGraph lines 80-99) *)

\* a buggy variant: the loop goes on until the worklist is empty
LoopCondQueueOnly(t) == Len(t.wl) > 0

\* the condition of the while loop (line 83)
LoopCond(t) == t.depth >= 0 /\ Len(t.wl) > 0

\* a buggy variant: only outgoing edges are followed
LoopBodyOutgoing(t, links) ==
  LET cur == Head(t.wl)
      rest == Tail(t.wl)
  IN  IF cur = SENTINEL
      THEN [t EXCEPT !.depth = t.depth - 1, !.wl = Append(rest, SENTINEL),
                     !.pops = t.pops + 1]
      ELSE LET Out(l) == l.source = cur
               outgoing == SelectSeq(links, Out)
           IN  [t EXCEPT !.neighbourhood = SetAdd(t.neighbourhood, cur),
                         !.wl = rest \o [i \in 1..Len(outgoing) |-> outgoing[i].target]]

\* one iteration of the worklist loop
LoopBody(t, links) ==
  LET cur == Head(t.wl)
      rest == Tail(t.wl)
  IN  IF cur = SENTINEL
      THEN [t EXCEPT !.depth = t.depth - 1, !.wl = Append(rest, SENTINEL),
                     !.pops = t.pops + 1]
      ELSE LET Out(l) == l.source = cur
               In(l) == l.target = cur
               outgoing == SelectSeq(links, Out)
               incoming == SelectSeq(links, In)
           IN  [t EXCEPT !.neighbourhood = SetAdd(t.neighbourhood, cur),
                         !.wl = rest \o [i \in 1..Len(outgoing) |-> outgoing[i].target]
                                     \o [i \in 1..Len(incoming) |-> incoming[i].source]]

\* wl, depth and neighbourhood as the loop finds them (lines 80-82)
LoopStart(slug, depth) ==
  [wl |-> <<slug, SENTINEL>>, depth |-> depth, neighbourhood |-> <<>>, pops |-> 0]

\* no bounded traversal is being stepped
NoLoop == [wl |-> <<>>, depth |-> -1, neighbourhood |-> <<>>, pops |-> 0]

RECURSIVE RunLoop(_, _)
RunLoop(t, links) == IF LoopCond(t) THEN RunLoop(LoopBody(t, links), links) ELSE t

\* a buggy variant: the unbounded branch leaves the tag nodes out
UnboundedNoTags(d, tags, showTags) == SetFrom(<<>>, [i \in 1..Len(d) |-> simplifySlug(d[i].key)])

\* the else branch: every key of the index, plus the tag nodes
Unbounded(d, tags, showTags) ==
  LET keys == SetFrom(<<>>, [i \in 1..Len(d) |-> simplifySlug(d[i].key)])
  IN  IF showTags THEN SetFrom(keys, tags) ELSE keys

\* the neighbourhood set, in insertion order
Neighbourhood(d, built, slug, depth, showTags) ==
  IF depth >= 0
  THEN RunLoop(LoopStart(slug, depth), built.links).neighbourhood
  ELSE Unbounded(d, built.tags, showTags)

\* graphData: rendered nodes and rendered links (lines 101-111)
GraphData(neighbourhood, links) ==
  LET Both(l) == l.source \in Range(neighbourhood) /\ l.target \in Range(neighbourhood)
  IN  [nodes |-> neighbourhood, links |-> SelectSeq(links, Both)]

\* what one call of the builder leaves in links, tags, neighbourhood, graphData
Built(built, nb) ==
  [links |-> built.links, tags |-> built.tags, neighbourhood |-> nb,
   graphData |-> GraphData(nb, built.links)]

\* lines 80-111 for the edge list and tag nodes of lines 52-78
BuildOn(d, c, slug, built) ==
  Built(built, Neighbourhood(d, built, slug, c.depth, c.showTags))

\* the builder as run by renderGraph and renderTreeGraph for one call
Build(d, c, fullSlug) ==
  BuildOn(d, c, simplifySlug(fullSlug), BuildLinks(d, c.showTags, c.removeTags))

----------------------------------------------------------------------------
(* Radial renderers: records derived from page paths (lines 325-336, 437-447) *)

UNDEF == "<undefined>"

crumbAt(crumb, i) == IF i >= 1 /\ i <= Len(crumb) THEN crumb[i] ELSE UNDEF

\* the record pushed for one key; keep is FALSE when the key is skipped
RadialRecord(key) ==
  LET crumbL == Len(key)
      isIndex == key[crumbL] = "index" /\ crumbL > 1
      name == IF isIndex THEN crumbAt(key, crumbL - 1) ELSE key[crumbL]
      parent == IF isIndex THEN crumbAt(key, crumbL - 2) ELSE crumbAt(key, crumbL - 1)
  IN  [keep |-> parent # "tags",
       id |-> name,
       parentId |-> IF parent = UNDEF THEN (IF name = "index" THEN "" ELSE "index")
                    ELSE parent,
       key |-> key]

dataRadial(d) ==
  LET Kept(r) == r.keep
  IN  SelectSeq([i \in 1..Len(d) |-> RadialRecord(d[i].key)], Kept)

RECURSIVE Reach(_, _, _)
\* the records within n parent links of the records in `have`
Reach(have, recs, n) ==
  IF n = 0 THEN have
  ELSE Reach(have \cup {i \in 1..Len(recs) :
                          \E j \in have : recs[i].parentId = recs[j].id}, recs, n - 1)

StratifyResult(recs, error) ==
  [error |-> error, descendants |-> IF error = "none" THEN recs ELSE <<>>]

\* the error d3.stratify throws on these records, "none" when it builds a tree
StratifyError(recs) ==
  LET roots == {i \in 1..Len(recs) : recs[i].parentId = ""}
      Holders(p) == {j \in 1..Len(recs) : recs[j].id = p /\ recs[j].id # ""}
  IN    IF \E i \in 1..Len(recs) : recs[i].parentId # "" /\ Holders(recs[i].parentId) = {}
          THEN "missing"
        ELSE IF \E i \in 1..Len(recs) :
                  recs[i].parentId # "" /\ Cardinality(Holders(recs[i].parentId)) > 1
          THEN "ambiguous"
        ELSE IF Cardinality(roots) > 1 THEN "multiple roots"
        ELSE IF roots = {} THEN "no root"
        ELSE IF Reach(roots, recs, Len(recs)) # 1..Len(recs) THEN "cycle"
        ELSE "none"

\* d3.stratify: one root, every parent present and unambiguous, no cycle
Stratify(recs) == StratifyResult(recs, StratifyError(recs))

----------------------------------------------------------------------------
(* What each renderer appends to its mount point *)

\* the radial renderers run no builder
NotBuilt ==
  [links |-> <<>>, tags |-> <<>>, neighbourhood |-> <<>>,
   graphData |-> [nodes |-> <<>>, links |-> <<>>]]

\* d3.forceLink(graphData.links) (lines 114-122): the links of graphData.links
\* are the objects of `links` that passed the filter of line 110, and the force
\* replaces their source and target identifiers by the node objects; the other
\* objects of `links` keep their identifier strings
forceLink(links, nodes) ==
  [i \in 1..Len(links) |->
     [source |-> links[i].source, target |-> links[i].target,
      resolved |-> links[i].source \in Range(nodes) /\ links[i].target \in Range(nodes)]]

\* l.source.id === d.id (l.target.id === d.id): l.source.id is undefined, and
\* the comparison false, on an identifier string
endIdIs(end, resolved, id) == resolved /\ end = id

\* numLinks of nodeRadius (line 187), over `links` as forceLink left it
numLinks(links, id) ==
  Cardinality({i \in 1..Len(links) :
                 \/ endIdIs(links[i].source, links[i].resolved, id)
                 \/ endIdIs(links[i].target, links[i].resolved, id)})

\* nodeRadius (lines 186-189): 2 + Math.sqrt(numLinks), kept as its two terms
nodeRadius(links, id) == [plus |-> 2, sqrtOf |-> numLinks(links, id)]

\* the radius attribute of every circle (line 196)
Radii(links, nodes) == {<<id, nodeRadius(links, id)>> : id \in Range(nodes)}

\* the circles drawn for graphData.nodes (lines 146, 192-196)
ForceNodes(b) ==
  [error |-> "none", built |-> b, drawn |-> Range(b.graphData.nodes), root |-> FALSE,
   radii |-> Radii(forceLink(b.links, b.graphData.nodes), b.graphData.nodes)]

\* renderGraph after the await: one circle per graphData node
DrawForce(d, c, fullSlug) == ForceNodes(Build(d, c, fullSlug))

\* dataTree under the synthetic root "Root" (lines 607-621, 676-686)
TreeNodes(b) ==
  [error |-> "none", built |-> b,
   drawn |-> {id \in Range(b.graphData.nodes) : id # <<"">>}, root |-> TRUE,
   radii |-> {}]

\* renderTreeGraph after the await: a synthetic root over the graphData nodes
DrawTree(d, c, fullSlug) == TreeNodes(Build(d, c, fullSlug))

\* the circles drawn for root.descendants() (lines 383-389, 494-500)
RadialNodes(s) ==
  [error |-> s.error, built |-> NotBuilt,
   drawn |-> {simplifySlug(s.descendants[i].key) : i \in 1..Len(s.descendants)},
   root |-> FALSE, radii |-> {}]

\* renderRadialGraph and renderRadialTidyGraph after the await
DrawRadial(d, c, fullSlug) == RadialNodes(Stratify(dataRadial(d)))

Draw(kind, d, c, fullSlug) ==
  CASE kind = "force" -> DrawForce(d, c, fullSlug)
    [] kind = "tree" -> DrawTree(d, c, fullSlug)
    [] kind \in {"radial", "tidy"} -> DrawRadial(d, c, fullSlug)

----------------------------------------------------------------------------
(* Visited store (lines 17-26) *)

Absent == [kind |-> "absent"]
Text(json, items) == [kind |-> "text", json |-> json, items |-> items]

JSONstringify(items) == Text("array", items)

\* localStorage.getItem(localStorageKey) ?? "[]"
StoredText(st) == IF st.kind = "absent" THEN Text("array", <<>>) ELSE st

\* getVisited: JSON.parse throws on a garbled text, new Set on a non-iterable
getVisited(st) ==
  LET text == StoredText(st)
  IN  CASE text.json = "garbled" -> [error |-> "SyntaxError", visited |-> <<>>]
        [] text.json = "number" -> [error |-> "TypeError", visited |-> <<>>]
        [] text.json = "null" -> [error |-> "none", visited |-> <<>>]
        [] text.json = "array" -> [error |-> "none", visited |-> SetFrom(<<>>, text.items)]

\* a buggy variant: the slug is appended without the Set
addToVisitedAppend(st, slug) ==
  LET g == getVisited(st)
  IN  IF g.error # "none" THEN [error |-> g.error, store |-> st]
      ELSE [error |-> "none", store |-> JSONstringify(Append(StoredText(st).items, slug))]

\* addToVisited
addToVisited(st, slug) ==
  LET g == getVisited(st)
  IN  IF g.error # "none" THEN [error |-> g.error, store |-> st]
      ELSE [error |-> "none", store |-> JSONstringify(SetAdd(g.visited, slug))]

----------------------------------------------------------------------------
(* Render calls: the part before `await fetchData` and the part after it *)

NoCall == [id |-> 0, status |-> "none"]

InlineKind(c) == IF c.radial THEN "radial" ELSE IF c.tree THEN "tree" ELSE "force"

GlobalHandler(c) == IF c.radial THEN (IF c.tidy THEN "tidy" ELSE "radial") ELSE "force"

Mark(lat, call, status) ==
  IF lat[call.container].id = call.id
  THEN [lat EXCEPT ![call.container] = [id |-> call.id, status |-> status]]
  ELSE lat

\* the rest of a render call once fetchData has resolved: r is what it draws;
\* for a call awaited by the nav listener, also the rest of the listener
Appended(st, call, r) ==
  LET svg == [call |-> call.id, kind |-> call.kind, slug |-> call.slug,
              cont |-> call.cont,
              built |-> r.built, drawn |-> r.drawn, root |-> r.root,
              radii |-> r.radii]
  IN  IF r.error # "none"
      THEN [st EXCEPT !.latest = Mark(st.latest, call, "threw"), !.err = r.error]
      ELSE [st EXCEPT !.dom[call.container] = Append(st.dom[call.container], svg),
                      !.latest = Mark(st.latest, call, "done"),
                      !.iconClick = IF call.cont = "nav"
                                    THEN st.iconClick \cup {GlobalHandler(cfg[GLOBAL])}
                                    ELSE st.iconClick]

Resume(st, call) ==
  Appended(st, call, Draw(call.kind, data, cfg[call.container], call.slug))

\* renderGraph, renderRadialGraph, renderRadialTidyGraph, renderTreeGraph up to
\* `await fetchData`, continued at once when the data is already there
RenderCall(st, container, kind, slug, cont) ==
  LET g == getVisited(st.store)
      id == st.nextId + 1
      call == [id |-> id, container |-> container, kind |-> kind, slug |-> slug,
               cont |-> cont]
      started == [st EXCEPT !.dom[container] = <<>>, !.nextId = id,
                            !.latest[container] = [id |-> id, status |-> "pending"]]
  IN  IF g.error # "none" THEN [st EXCEPT !.err = g.error]
      ELSE IF container \notin mounts THEN st
      ELSE IF fetched THEN Resume(started, call)
      ELSE [started EXCEPT !.pending = Append(st.pending, call)]

RECURSIVE ResumeAll(_, _)
ResumeAll(st, calls) ==
  IF calls = <<>> THEN st ELSE ResumeAll(Resume(st, Head(calls)), Tail(calls))

Snapshot(st) ==
  [store |-> st, dom |-> dom, pending |-> pending, latest |-> latest,
   nextId |-> nextId, iconClick |-> iconClick, err |-> "none"]

Event(ev, slug, error, invoked) ==
  [ev |-> ev, slug |-> slug, error |-> error, invoked |-> invoked, wasActive |-> active]

----------------------------------------------------------------------------
(* Events *)

\* a buggy variant: an open overlay is what the nav listener renders
NavContainerActive(isActive) == IF isActive THEN GLOBAL ELSE GRAPH

\* the mount point the nav listener renders into (lines 782-784)
NavContainer(isActive) == GRAPH

\* the listener from its render call on (lines 782-802): r is the state the call leaves
NavRendered(slug, a, target, r) ==
  /\ store' = a.store
  /\ dom' = r.dom
  /\ pending' = r.pending
  /\ latest' = r.latest
  /\ nextId' = r.nextId
  /\ iconClick' = r.iconClick
  /\ lastEv' = Event("nav", slug, r.err, {target})

\* the listener after addToVisited returned a (lines 776-784)
NavVisited(slug, a, target) ==
  IF a.error # "none"
  THEN /\ lastEv' = Event("nav", slug, a.error, {})
       /\ UNCHANGED <<store, dom, pending, latest, nextId, iconClick>>
  ELSE IF GRAPH \notin mounts \/ GLOBAL \notin mounts
  THEN /\ store' = a.store
       /\ lastEv' = Event("nav", slug, "TypeError", {})
       /\ UNCHANGED <<dom, pending, latest, nextId, iconClick>>
  ELSE NavRendered(slug, a, target,
                   RenderCall(Snapshot(a.store), target, InlineKind(cfg[GRAPH]),
                              slug, "nav"))

\* the "nav" listener
NavEvent(slug) ==
  /\ budget > 0
  /\ budget' = budget - 1
  /\ page' = slug
  /\ added' = added \cup {slug}
  /\ NavVisited(slug, addToVisited(store, slug), NavContainer(active))
  /\ UNCHANGED <<data, cfg, mounts, fetched, active, escHandlers, store0, loop>>

\* renderGlobalGraph once its render call has returned r (lines 707-719)
Clicked(r) ==
  /\ dom' = r.dom
  /\ pending' = r.pending
  /\ latest' = r.latest
  /\ nextId' = r.nextId
  /\ lastEv' = Event("click", page, r.err, {GLOBAL})

\* a click on #global-graph-icon: renderGlobalGraph, renderGlobalRadialGraph or
\* renderGlobalRadialTidyGraph, whichever is registered
IconClick ==
  /\ budget > 0
  /\ budget' = budget - 1
  /\ \E h \in iconClick : Clicked(RenderCall(Snapshot(store), GLOBAL, h, page, "click"))
  /\ active' = TRUE
  /\ escHandlers' = escHandlers + 1
  /\ UNCHANGED <<data, cfg, mounts, store, fetched, iconClick, added, store0, page,
                 loop>>

\* hideGlobalGraph, run by a registered escape handler
HideGlobalGraph ==
  /\ escHandlers > 0
  /\ active' = FALSE
  /\ dom' = IF GLOBAL \in mounts THEN [dom EXCEPT ![GLOBAL] = <<>>] ELSE dom
  /\ latest' = IF GLOBAL \in mounts THEN [latest EXCEPT ![GLOBAL] = NoCall] ELSE latest
  /\ lastEv' = Event("hide", page, "none", {})
  /\ UNCHANGED <<data, cfg, mounts, store, fetched, pending, iconClick, escHandlers,
                 nextId, added, store0, page, budget, loop>>

Resumed(r) ==
  /\ dom' = r.dom
  /\ latest' = r.latest
  /\ iconClick' = r.iconClick
  /\ lastEv' = Event("fetch", page, r.err, {})

\* fetchData resolves: the suspended render calls continue in order
FetchResolve ==
  /\ ~fetched
  /\ fetched' = TRUE
  /\ Resumed(ResumeAll(Snapshot(store), pending))
  /\ pending' = <<>>
  /\ UNCHANGED <<data, cfg, mounts, store, active, escHandlers, nextId, added, store0,
                 page, budget, loop>>

----------------------------------------------------------------------------
(* Inputs *)

Cfg(depth, showTags, removeTags, radial, tree, tidy) ==
  [depth |-> depth, showTags |-> showTags, removeTags |-> removeTags,
   radial |-> radial, tree |-> tree, tidy |-> tidy]

Entry(key, links, tags) == [key |-> key, links |-> links, tags |-> tags]

\* indexes of the event runs
EventIndexes ==
  { << Entry(<<"index">>, << <<"a">> >>, <<>>),
       Entry(<<"a">>, << <<"b">> >>, <<"x">>),
       Entry(<<"b">>, <<>>, <<"x">>) >>,
    << Entry(<<"a">>, << <<"b">>, <<"zz">> >>, <<>>),
       Entry(<<"b">>, <<>>, <<>>) >>,
    << Entry(<<"index">>, <<>>, <<>>),
       Entry(<<"n", "a">>, <<>>, <<>>),
       Entry(<<"m", "index">>, <<>>, <<>>),
       Entry(<<"m", "a">>, <<>>, <<>>) >> }

EventSlugs == { <<"index">>, <<"a">> }

InlineCfgs ==
  { Cfg(1, TRUE, <<>>, FALSE, FALSE, FALSE),
    Cfg(0, FALSE, <<>>, FALSE, TRUE, FALSE),
    Cfg(0, FALSE, <<>>, TRUE, FALSE, FALSE) }

GlobalCfgs ==
  { Cfg(-1, TRUE, <<>>, FALSE, FALSE, FALSE),
    Cfg(-1, TRUE, <<>>, TRUE, FALSE, FALSE),
    Cfg(-1, TRUE, <<>>, TRUE, FALSE, TRUE) }

Stores ==
  { Absent, Text("garbled", <<>>), Text("number", <<>>), Text("null", <<>>),
    Text("array", <<>>), Text("array", << <<"index">> >>),
    Text("array", << <<"a">>, <<"a">> >>) }

InitCommon ==
  /\ pending = <<>>
  /\ dom = [c \in Containers |-> <<>>]
  /\ active = FALSE
  /\ iconClick = {}
  /\ escHandlers = 0
  /\ nextId = 0
  /\ latest = [c \in Containers |-> NoCall]
  /\ lastEv = [ev |-> "none", slug |-> <<"index">>, error |-> "none", invoked |-> {},
               wasActive |-> FALSE]
  /\ added = {}
  /\ store0 = store
  /\ page = <<"index">>

Init ==
  /\ data \in EventIndexes
  /\ cfg \in [Containers -> InlineCfgs \cup GlobalCfgs]
  /\ cfg[GRAPH] \in InlineCfgs
  /\ cfg[GLOBAL] \in GlobalCfgs
  /\ mounts \in SUBSET Containers
  /\ store \in Stores
  /\ fetched = FALSE
  /\ budget = MaxEvents
  /\ loop = NoLoop
  /\ InitCommon

Next ==
  \/ \E slug \in EventSlugs : NavEvent(slug)
  \/ IconClick
  \/ HideGlobalGraph
  \/ FetchResolve

Spec == Init /\ [][Next]_vars

----------------------------------------------------------------------------
(* Builder runs: one nav event on an index, configuration and focus drawn     *)
(* from bounded sets, with the data already fetched                           *)

GraphPages == << <<"a">>, <<"b">>, <<"c", "index">> >>

GraphTargets == << <<"a">>, <<"b">>, <<"c", "">>, <<"zz">>, <<"tags", "x">> >>

LinkPairs == (1..Len(GraphPages)) \X (1..Len(GraphTargets))

\* the links of page p, in the order of GraphTargets
PageLinks(L, p) ==
  LET Linked(t) == <<p, t>> \in L
      picked == SelectSeq([t \in 1..Len(GraphTargets) |-> t], Linked)
  IN  [i \in 1..Len(picked) |-> GraphTargets[picked[i]]]

GraphIndex(L, T, withTagPage) ==
  [p \in 1..Len(GraphPages) |->
     Entry(GraphPages[p], PageLinks(L, p), IF p \in T THEN <<"x">> ELSE <<>>)]
  \o (IF withTagPage THEN << Entry(<<"tags", "x">>, <<>>, <<>>) >> ELSE <<>>)

GraphIndexes ==
  { GraphIndex(L, T, k) :
      L \in {M \in SUBSET LinkPairs : Cardinality(M) <= MaxLinks},
      T \in {{}, {3}, {2, 3}},
      k \in BOOLEAN }

GraphCfgs ==
  { Cfg(depth, tg[1], tg[2], FALSE, tree, FALSE) :
      depth \in -1..MaxDepth,
      tg \in { <<FALSE, <<>> >>, <<TRUE, <<>> >>, <<TRUE, <<"x">> >> },
      tree \in BOOLEAN }

GraphFocus == { <<"c", "index">>, <<"tags", "x">> }

InitGraph ==
  /\ data \in GraphIndexes
  /\ cfg \in { [c \in Containers |->
                 IF c = GRAPH THEN g ELSE Cfg(-1, TRUE, <<>>, FALSE, FALSE, FALSE)] :
               g \in GraphCfgs }
  /\ mounts = Containers
  /\ store = Absent
  /\ fetched = TRUE
  /\ budget = 1
  /\ loop = NoLoop
  /\ InitCommon

NextGraph == \E slug \in GraphFocus : NavEvent(slug)

SpecGraph == InitGraph /\ [][NextGraph]_vars

----------------------------------------------------------------------------
(* Traversal runs: the worklist loop of one bounded builder run, one          *)
(* iteration per step, on an index, configuration and focus drawn from        *)
(* bounded sets                                                               *)

LoopLinkSets == {M \in SUBSET LinkPairs : Cardinality(M) <= MaxLinks}

\* pages tagged x, shown as a tag node whenever there are any
LoopTagged == {{}, {2, 3}}

LoopCfg(depth, showTags) ==
  [c \in Containers |->
     IF c = GRAPH THEN Cfg(depth, showTags, <<>>, FALSE, FALSE, FALSE)
     ELSE Cfg(-1, TRUE, <<>>, FALSE, FALSE, FALSE)]

LoopFocus == <<"c", "index">>

\* the full edge list of the run being stepped
LoopLinks == BuildLinks(data, cfg[GRAPH].showTags, cfg[GRAPH].removeTags).links

InitLoop ==
  /\ \E L \in LoopLinkSets, T \in LoopTagged, depth \in 0..MaxDepth :
       /\ data = GraphIndex(L, T, FALSE)
       /\ cfg = LoopCfg(depth, T # {})
       /\ loop = LoopStart(simplifySlug(LoopFocus), depth)
  /\ mounts = Containers
  /\ store = Absent
  /\ fetched = TRUE
  /\ budget = 0
  /\ InitCommon

\* one iteration of the while loop (lines 83-95)
LoopStep ==
  /\ LoopCond(loop)
  /\ loop' = LoopBody(loop, LoopLinks)
  /\ UNCHANGED <<data, cfg, mounts, store, fetched, pending, dom, active, iconClick,
                 escHandlers, nextId, latest, lastEv, added, store0, page, budget>>

NextLoop == LoopStep

\* the loop runs to its end once started: nothing else runs in between
SpecLoop == InitLoop /\ [][NextLoop]_vars /\ WF_vars(NextLoop)

----------------------------------------------------------------------------
(* Properties of the graph builder *)

Svgs(c) == Range(dom[c])

\* the neighbours of x in the undirected closure of the edge list E
Adjacent(E, x) ==
  {E[i].target : i \in {j \in 1..Len(E) : E[j].source = x}}
    \cup {E[i].source : i \in {j \in 1..Len(E) : E[j].target = x}}

RECURSIVE Ball(_, _, _)
\* the identifiers within n edge traversals of the set S
Ball(E, S, n) ==
  IF n = 0 THEN S ELSE Ball(E, S \cup UNION {Adjacent(E, x) : x \in S}, n - 1)

Deeper(c) == [c EXCEPT !.depth = c.depth + 1]

\* C1: in bounded mode the neighbourhood of a render is the focus plus every
\* identifier within depth edge traversals of it in the undirected closure of
\* the full edge list; depth 0 gives the focus alone; depth + 1 gives no less
C1_BoundedNeighbourhood ==
  \A svg \in Svgs(GRAPH) :
    LET c == cfg[GRAPH]
        focus == simplifySlug(svg.slug)
        nb == Range(svg.built.neighbourhood)
    IN  c.depth >= 0 =>
          /\ nb = Ball(svg.built.links, {focus}, c.depth)
          /\ (c.depth = 0 => nb = {focus})
          /\ nb \subseteq Range(Build(data, Deeper(c), svg.slug).neighbourhood)

\* a render at depth 1 that takes in a neighbour and leaves a farther node out
C1_Witness ==
  \E svg \in Svgs(GRAPH) :
    /\ cfg[GRAPH].depth = 1
    /\ Len(svg.built.neighbourhood) >= 2
    /\ Ball(svg.built.links, {simplifySlug(svg.slug)}, 2)
         # Range(svg.built.neighbourhood)

\* the tag slugs an entry brings in: one per tag of the page not in removeTags
EntryTagNodes(entry, removeTags) ==
  {tagSlug(entry.tags[i]) : i \in {j \in 1..Len(entry.tags) :
                                     entry.tags[j] \notin Range(removeTags)}}

EntriesOf(d, source) == {d[i] : i \in {j \in 1..Len(d) : simplifySlug(d[j].key) = source}}

\* C2 as stated: a page link whose target is not a key of the index leaves no
\* edge (source, target) in the full edge list, whatever the configuration
C2_NoDanglingEdge ==
  \A svg \in Svgs(GRAPH) :
    \A i \in 1..Len(data) :
      \A dest \in Range(data[i].links) :
        dest \notin SimpleKeys(data) =>
          [source |-> simplifySlug(data[i].key), target |-> dest]
            \notin Range(svg.built.links)

\* C2 amended: an edge of the full edge list whose target is not a key of the
\* index is a tag edge: showTags is on and the target is the tag slug of a tag
\* of the source page that removeTags does not list
C2_DanglingOnlyTags ==
  \A svg \in Svgs(GRAPH) :
    \A l \in Range(svg.built.links) :
      \/ l.target \in SimpleKeys(data)
      \/ /\ cfg[GRAPH].showTags
         /\ \E e \in EntriesOf(data, l.source) :
              l.target \in EntryTagNodes(e, cfg[GRAPH].removeTags)

\* a render with tags shown whose index has a dangling page link and whose
\* edge list has a tag edge to a slug that is no key
C2_Witness ==
  \E svg \in Svgs(GRAPH) :
    /\ cfg[GRAPH].showTags
    /\ \E i \in 1..Len(data) : <<"zz">> \in Range(data[i].links)
    /\ \E l \in Range(svg.built.links) : l.target \notin SimpleKeys(data)
    /\ \E l \in Range(svg.built.links) : l.target \in SimpleKeys(data)

NoTags(c) == [c EXCEPT !.showTags = FALSE]

NonTag(g, tags) ==
  LET Page(id) == id \notin Range(tags)
      PageLink(l) == l.source \notin Range(tags) /\ l.target \notin Range(tags)
  IN  [nodes |-> SelectSeq(g.nodes, Page), links |-> SelectSeq(g.links, PageLink)]

\* the render without tags is the non-tag subgraph of the render `t` with tags
SameAsNonTag(off, t) ==
  LET sub == NonTag(t.graphData, t.tags)
  IN  /\ Range(off.graphData.nodes) = Range(sub.nodes)
      /\ off.graphData.links = sub.links

\* every node and link rendered without tags is rendered with tags
WithinTagged(off, t) ==
  /\ Range(off.graphData.nodes) \subseteq Range(t.graphData.nodes)
  /\ \A l \in Range(off.graphData.links) :
       Count(off.graphData.links, l) <= Count(t.graphData.links, l)

\* C3 as stated: for the same index, focus and depth, the render with
\* showTags off equals the render with showTags on less its tag nodes and the
\* edges to them (stated for a focus and keys that are not tag nodes themselves)
C3_NonTagSubgraph ==
  \A svg \in Svgs(GRAPH) :
    /\ cfg[GRAPH].showTags
    /\ simplifySlug(svg.slug) \notin Range(svg.built.tags)
    /\ SimpleKeys(data) \cap Range(svg.built.tags) = {}
    => SameAsNonTag(Build(data, NoTags(cfg[GRAPH]), svg.slug), svg.built)

\* C3 amended: every node and link rendered with showTags off is rendered with
\* showTags on; the two renders differ by the tag nodes and tag edges alone
\* when the depth is negative or at most 1 and neither the focus nor a key of
\* the index is a tag node
C3_TagsOnlyAdd ==
  \A svg \in Svgs(GRAPH) :
    LET c == cfg[GRAPH] IN
    c.showTags =>
      /\ WithinTagged(Build(data, NoTags(c), svg.slug), svg.built)
      /\ ( /\ c.depth <= 1
           /\ simplifySlug(svg.slug) \notin Range(svg.built.tags)
           /\ SimpleKeys(data) \cap Range(svg.built.tags) = {}
           => SameAsNonTag(Build(data, NoTags(c), svg.slug), svg.built) )

\* a render with tags shown, at depth 2, that draws a tag node, a page link and
\* a page the render without tags leaves out
C3_Witness ==
  \E svg \in Svgs(GRAPH) :
    /\ cfg[GRAPH].showTags
    /\ cfg[GRAPH].depth = 2
    /\ Range(svg.built.tags) \cap Range(svg.built.graphData.nodes) # {}
    /\ Build(data, NoTags(cfg[GRAPH]), svg.slug).graphData.links # <<>>
    /\ \E id \in Range(svg.built.graphData.nodes) \ Range(svg.built.tags) :
         id \notin Range(Build(data, NoTags(cfg[GRAPH]), svg.slug).graphData.nodes)

\* the tag nodes the edge construction registers for index d
RegisteredTags(d, c) ==
  IF c.showTags
  THEN UNION {EntryTagNodes(d[i], c.removeTags) : i \in 1..Len(d)}
  ELSE {}

\* C4: with a negative depth the neighbourhood is the key set of the index,
\* plus the registered tag nodes exactly when showTags is on, and every focus
\* gives the same neighbourhood
C4_Unbounded ==
  \A svg \in Svgs(GRAPH) :
    LET c == cfg[GRAPH] IN
    c.depth < 0 =>
      /\ Range(svg.built.neighbourhood) = SimpleKeys(data) \cup RegisteredTags(data, c)
      /\ \A f \in GraphFocus \cup {<<"zz">>} :
           Build(data, c, f).neighbourhood = svg.built.neighbourhood

\* an unbounded render with a registered tag node, for a focus that is no key
C4_Witness ==
  \E svg \in Svgs(GRAPH) :
    /\ cfg[GRAPH].depth < 0
    /\ cfg[GRAPH].showTags
    /\ RegisteredTags(data, cfg[GRAPH]) # {}
    /\ simplifySlug(svg.slug) \notin SimpleKeys(data)
    /\ RegisteredTags(data, cfg[GRAPH]) \subseteq Range(svg.built.neighbourhood)

----------------------------------------------------------------------------
(* Properties of the renderers and of the panel controller *)

PendingOn(c) == {i \in 1..Len(pending) : pending[i].container = c}

\* C5 as stated: every page a renderer draws is in the neighbourhood of the
\* render's focus for the depth configured on its mount point
C5_DrawnInNeighbourhood ==
  \A c \in Containers :
    \A svg \in Svgs(c) :
      svg.drawn \subseteq Range(Build(data, cfg[c], svg.slug).neighbourhood)

\* C6 as stated: once the render calls on a mount point have all completed, it
\* holds one svg, that of the latest call
C6_OneRender ==
  \A c \in Containers :
    latest[c].status = "done" /\ PendingOn(c) = {} =>
      /\ Len(dom[c]) = 1
      /\ dom[c][1].call = latest[c].id

Unreadable(st) == st.kind = "absent" \/ st.json = "garbled"

\* C8 as stated: after a nav event on a missing or garbled store, with both
\* mount points present, getVisited raises no error, the page is recorded and
\* the inline render has been called
C8_GarbledIsEmpty ==
  lastEv.ev = "nav" /\ Unreadable(store0) /\ mounts = Containers =>
    /\ getVisited(store).error = "none"
    /\ lastEv.slug \in Range(getVisited(store).visited)
    /\ lastEv.invoked # {}

\* C9 as stated: with a mount point missing (and a readable store), a nav
\* event or an icon click raises no error
C9_MissingMountSkipped ==
  /\ lastEv.ev \in {"nav", "click"}
  /\ mounts # Containers
  /\ getVisited(store0).error = "none"
  => lastEv.error = "none"

WellFormed(st) == st.kind = "absent" \/ st.json = "array"

\* C10: from a well-formed store, the persisted array holds every identifier
\* added and every identifier it held at the start, and, once something has
\* been added, holds no identifier twice
C10_VisitedKeepsAll ==
  WellFormed(store0) =>
    /\ getVisited(store).error = "none"
    /\ added \subseteq Range(StoredText(store).items)
    /\ Range(StoredText(store0).items) \subseteq Range(StoredText(store).items)
    /\ (added # {} =>
          \A x \in Range(StoredText(store).items) : Count(StoredText(store).items, x) = 1)

\* two identifiers added to a store that held one of them twice
C10_Witness ==
  /\ store0 = Text("array", << <<"a">>, <<"a">> >>)
  /\ added = { <<"a">>, <<"index">> }
  /\ store.kind = "text"

----------------------------------------------------------------------------
(* Properties of the force-directed renderer's node radius *)

\* the edges of the edge list E that have x as an endpoint
Incident(E, x) == {i \in 1..Len(E) : E[i].source = x \/ E[i].target = x}

ForceSvgs == {svg \in Svgs(GRAPH) : svg.kind = "force"}

\* C11 as stated: the radius of a node drawn by the force-directed renderer is
\* 2 + sqrt(k), k the number of edges of the full edge list incident to it
C11_RadiusFullDegree ==
  \A svg \in ForceSvgs :
    \A id \in svg.drawn :
      <<id, [plus |-> 2, sqrtOf |-> Cardinality(Incident(svg.built.links, id))]>>
        \in svg.radii

\* what the code gives instead: k counts the rendered links incident to the node
C11_RadiusRenderedDegree ==
  \A svg \in ForceSvgs :
    \A id \in svg.drawn :
      <<id, [plus |-> 2, sqrtOf |-> Cardinality(Incident(svg.built.graphData.links, id))]>>
        \in svg.radii

----------------------------------------------------------------------------
(* Properties of the radial renderers' records *)

\* unique ids, exactly one root, every other record's parentId is the id of
\* another record
StrictTree(recs) ==
  /\ \A i, j \in 1..Len(recs) : recs[i].id = recs[j].id => i = j
  /\ Cardinality({i \in 1..Len(recs) : recs[i].parentId = ""}) = 1
  /\ \A i \in 1..Len(recs) :
       recs[i].parentId # "" =>
         \E j \in 1..Len(recs) : j # i /\ recs[j].id = recs[i].parentId

\* C12 as stated: the records a radial renderer has derived from the page paths
\* of the content index form a strict tree
C12_RadialStrictTree ==
  \A c \in Containers :
    cfg[c].radial /\ latest[c].status \in {"done", "threw"} =>
      StrictTree(dataRadial(data))

----------------------------------------------------------------------------
(* Properties of the worklist loop *)

LoopStopped == ~LoopCond(loop)

\* C13: in bounded mode the worklist loop terminates, having popped the
\* sentinel at most depth + 1 times, and when it has stopped the depth counter
\* is negative or the worklist is empty
C13_LoopTerminates ==
  /\ [](loop.pops <= cfg[GRAPH].depth + 1)
  /\ [](LoopStopped => loop.depth < 0 \/ loop.wl = <<>>)
  /\ <>LoopStopped

\* a run on a cyclic link graph that has stopped after depth + 1 sentinel pops
\* with the neighbourhood the builder computes
C13_Witness ==
  /\ LoopStopped
  /\ cfg[GRAPH].depth = MaxDepth
  /\ loop.pops = cfg[GRAPH].depth + 1
  /\ \E i, j \in 1..Len(LoopLinks) :
       /\ LoopLinks[i].source = LoopLinks[j].target
       /\ LoopLinks[i].target = LoopLinks[j].source
       /\ LoopLinks[i].source # LoopLinks[i].target
       /\ LoopLinks[i].source = loop.neighbourhood[1]
  /\ loop.neighbourhood =
       Neighbourhood(data, [links |-> LoopLinks, tags |-> <<>>], loop.neighbourhood[1],
                     cfg[GRAPH].depth, cfg[GRAPH].showTags)

====
